---- MODULE Spec2Model ----
(***************************************************************************)
(* WealthFlow: the monthly forecast engine (lib/forecast computeForecast), *)
(* the rule-based advisor (lib/heuristic-advisor runHeuristicAdvisor) and  *)
(* the advisor orchestrator with its cache (lib/advisor runAdvisor).       *)
(*                                                                         *)
(* Numbers.  A JavaScript number x is represented by the integer 1000 * x  *)
(* ("mills"), so 1.00 is 1000 and one cent is 10.  Amounts that are not    *)
(* 2-decimal values (1.004, 2.034) are therefore representable.  Products  *)
(* with percentages are kept as exact fractions n / d until the code       *)
(* rounds them; the arithmetic is that of the reals, not of IEEE doubles.  *)
(* Percentages (growthRate, annualRate, taxRate, ...) are whole percents.  *)
(* Month indices are 0-based as in the code; TLA+ sequences are 1-based,   *)
(* so the code's snapshots[k] is snapshots[k + 1] here.                    *)
(***************************************************************************)
EXTENDS Integers, Sequences, FiniteSets, TLC

\* longest horizon (scenario.months) explored
MaxMonths == 6

\* the code's null (debtFreeMonth, endMonth, goalAchievedMonth)
Null == -1

\* an environment variable that is not set
Unset == "<unset>"

----------------------------------------------------------------------------
(* Arithmetic helpers *)

Max(a, b) == IF a >= b THEN a ELSE b

Min(a, b) == IF a <= b THEN a ELSE b

RECURSIVE Pow(_, _)
Pow(b, e) == IF e = 0 THEN 1 ELSE b * Pow(b, e - 1)

RECURSIVE GCD(_, _)
GCD(a, b) == IF b = 0 THEN a ELSE GCD(b, a % b)

RECURSIVE SumSeq(_)
SumSeq(s) == IF s = <<>> THEN 0 ELSE SumSeq(SubSeq(s, 1, Len(s) - 1)) + s[Len(s)]

\* Math.round(x * 100) / 100 for x = n / d mills (d > 0): the nearest cent,
\* a half rounding towards plus infinity as Math.round does.
r2q(n, d) == 10 * ((2 * n + 10 * d) \div (20 * d))

\* r2 forgotten: the value is passed on unrounded
r2_unrounded(n) == n

r2(n) == r2q(n, 1)

\* let acc = 0; for (x of s) acc = r2(acc + x)
RECURSIVE r2Accumulate(_)
r2Accumulate(s) ==
    IF s = <<>> THEN 0
    ELSE r2(r2Accumulate(SubSeq(s, 1, Len(s) - 1)) + s[Len(s)])

\* a value that carries at most 2 decimals
Is2dp(x) == x % 10 = 0

----------------------------------------------------------------------------
(* Scenario inputs explored (amounts in mills, rates in percent) *)

Income(id, amount, startMonth, endMonth, growthRate) ==
    [id |-> id, amount |-> amount, startMonth |-> startMonth,
     endMonth |-> endMonth, growthRate |-> growthRate]

Expense(id, amount, category, startMonth, endMonth, growthRate, isOneTime) ==
    [id |-> id, amount |-> amount, category |-> category,
     startMonth |-> startMonth, endMonth |-> endMonth,
     growthRate |-> growthRate, isOneTime |-> isOneTime]

Debt(id, balance, annualRate, minPayment, strategy) ==
    [id |-> id, balance |-> balance, annualRate |-> annualRate,
     minPayment |-> minPayment, strategy |-> strategy]

Investment(id, currentValue, monthlyContribution, expectedAnnualReturn) ==
    [id |-> id, currentValue |-> currentValue,
     monthlyContribution |-> monthlyContribution,
     expectedAnnualReturn |-> expectedAnnualReturn]

OneTimeEvent(id, amount, month) == [id |-> id, amount |-> amount, month |-> month]

Goal(id, label, type, targetAmount, targetMonth) ==
    [id |-> id, label |-> label, type |-> type,
     targetAmount |-> targetAmount, targetMonth |-> targetMonth]

InitialCashChoices == {0, 1004, 20000}

IncomeChoices ==
    { <<>>,
      << Income("i1", 10000, 0, Null, 0) >>,
      << Income("i1", 1004, 0, Null, 0) >>,
      << Income("i1", 10000, 0, Null, 0), Income("i2", 3000, 1, 2, 10) >> }

ExpenseChoices ==
    { <<>>,
      << Expense("e1", 12000, "fixed", 0, Null, 0, FALSE) >>,
      << Expense("e1", 7000, "rent", 0, Null, 0, FALSE),
         Expense("e2", 5000, "discretionary", 0, Null, 0, FALSE) >>,
      << Expense("e1", 2000, "fixed", 0, 3, 5, FALSE),
         Expense("e2", 2034, "discretionary", 0, Null, 0, FALSE),
         Expense("e3", 4000, "discretionary", 1, Null, 0, TRUE) >>,
      << Expense("e1", 4000, "fixed", 1, Null, 0, FALSE) >> }

DebtChoices ==
    { <<>>,
      << Debt("d1", 50000, 12, 1200, "min") >>,
      << Debt("d1", 5000, 0, 5000, "min") >>,
      << Debt("d1", 100, 1, 50, "min") >>,
      << Debt("d1", 3004, 24, 500, "instant") >>,
      << Debt("d1", 4000, 12, 4040, "aggressive") >>,
      << Debt("d1", 3009, 12, 3039, "min") >>,
      << Debt("d1", 8000, 12, 1000, "aggressive"),
         Debt("d2", 8000, 12, 1000, "aggressive") >>,
      << Debt("d1", 2000, 6, 700, "aggressive"),
         Debt("d2", 100, 1, 50, "min") >> }

InvestmentChoices ==
    { <<>>,
      << Investment("inv1", 20000, 500, 12) >>,
      << Investment("inv1", 1004, 124, 0),
         Investment("inv2", 20000, 0, 8) >> }

\* <<inflationRate, taxRate, oneTimeEvents, goals>>
MacroChoices ==
    { <<0, 0, <<>>, <<>>>>,
      <<600, 25, <<>>,
        << Goal("g1", "Buy a car", "net_worth", 20000, 3),
           Goal("g2", "Portfolio", "investment", 21000, 0) >>>>,
      <<0, 0, << OneTimeEvent("ev1", 2500, 0), OneTimeEvent("ev2", -3000, 1) >>,
        << Goal("g1", "Cushion", "savings", 2000, 0) >>>>,
      <<0, 0, << OneTimeEvent("ev1", 1004, 0) >>,
        << Goal("g1", "Deposit", "savings", 20000, 9),
           Goal("g2", "Portfolio", "investment", 21000, 1) >>>> }

Scenarios ==
    { [months |-> mo, initialCash |-> ic, incomes |-> inc, expenses |-> ex,
       debts |-> de, investments |-> iv,
       inflationRate |-> mc[1], taxRate |-> mc[2], oneTimeEvents |-> mc[3],
       goals |-> mc[4]] :
         mo \in 1..MaxMonths, ic \in InitialCashChoices, inc \in IncomeChoices,
         ex \in ExpenseChoices, de \in DebtChoices, iv \in InvestmentChoices,
         mc \in MacroChoices }

----------------------------------------------------------------------------
(* The forecast engine *)

VARIABLES
    scenario,            \* the ScenarioInput the caller passed
    pc,                  \* "loop": in the month loop; "forecast": computeForecast
                         \* returned; "advised": runHeuristicAdvisor returned
    m,                   \* loop counter of computeForecast
    cash,
    debtStates,
    invValues,
    snapshots,
    totalInterestPaid,
    totalTaxPaid,
    negativeCashMonths,
    debtFreeMonth,
    minCash,
    minCashMonth,
    goalAchievedMonth,
    summary,             \* ForecastResult.summary once computeForecast returned
    goalProgress,        \* ForecastResult.goalProgress once it returned
    emergencyFundMonths, \* third argument of runHeuristicAdvisor
    advice,              \* the AdvisorResponse once runHeuristicAdvisor returned
    prefs,               \* third argument of runAdvisor
    env,                 \* process.env of the server process
    memCache,            \* the module-level Map of lib/advisor: inputHash -> response
    llm,                 \* what the provider did in the last runAdvisor call
    run,                 \* the AdvisorRunResult of the last runAdvisor call
    calls,               \* computeForecast calls started by the server process
    history,             \* <<scenario, result>> of the computeForecast calls
                         \* that returned
    rateLimitMap,        \* the module-level Map of the advisor route:
                         \* ip -> { count, resetAt }
    now,                 \* Date.now() of the server process, in ms
    rl,                  \* the ip and the result of the last checkRateLimit call
    accepted,            \* per ip, the requests accepted in its current window
    db,                  \* isDbConfigured() and the rows of db.advisorRun
    reqs                 \* the POST /api/advisor handlers in flight: position,
                         \* effectiveId, inputHash, model and existing of each

\* the locals of computeForecast
localVars == << m, cash, debtStates, invValues, snapshots, totalInterestPaid,
                totalTaxPaid, negativeCashMonths, debtFreeMonth, minCash,
                minCashMonth, goalAchievedMonth >>

\* the state of lib/advisor and of the server process around it
serverVars == << prefs, env, memCache, llm, run, calls, history >>

\* the state of the advisor route
apiVars == << rateLimitMap, now, rl, accepted, db, reqs >>

\* the state of the forecast, of the advisor and of lib/advisor
coreVars == << scenario, pc, localVars, summary, goalProgress,
               emergencyFundMonths, advice, serverVars >>

vars == << coreVars, apiVars >>

\* the start month itself is skipped
monthlyIncome_lateStart(income, month) ==
    IF month <= income.startMonth THEN 0
    ELSE IF income.endMonth # Null /\ month > income.endMonth THEN 0
    ELSE LET years == month \div 12
         IN  r2q(income.amount * Pow(100 + income.growthRate, years), Pow(100, years))

monthlyIncome(income, month) ==
    IF month < income.startMonth THEN 0
    ELSE IF income.endMonth # Null /\ month > income.endMonth THEN 0
    ELSE LET years == month \div 12
         IN  r2q(income.amount * Pow(100 + income.growthRate, years), Pow(100, years))

\* the isOneTime flag is ignored
monthlyExpense_everyMonth(expense, month) ==
    IF month < expense.startMonth THEN 0
    ELSE IF expense.endMonth # Null /\ month > expense.endMonth THEN 0
    ELSE LET years == month \div 12
         IN  r2q(expense.amount * Pow(100 + expense.growthRate, years), Pow(100, years))

monthlyExpense(expense, month) ==
    IF month < expense.startMonth THEN 0
    ELSE IF expense.endMonth # Null /\ month > expense.endMonth THEN 0
    ELSE IF expense.isOneTime /\ month # expense.startMonth THEN 0
    ELSE LET years == month \div 12
         IN  r2q(expense.amount * Pow(100 + expense.growthRate, years), Pow(100, years))

\* every strategy pays towards the balance only: the month's interest is left
\* out of the payoff amount
stepDebt_payoffWithoutInterest(state, extraCash) ==
    IF state.paidOff \/ state.balance <= 0
    THEN [payment |-> 0, interest |-> 0, newBalance |-> 0]
    ELSE LET interest == r2q(state.balance * state.annualRate, 1200)
             payment ==
                 IF state.strategy = "instant"
                 THEN r2(state.balance)
                 ELSE IF state.strategy = "aggressive"
                 THEN r2q(Min(10 * state.balance,
                              10 * state.minPayment + Max(0, 3 * extraCash)), 10)
                 ELSE r2(Min(state.balance, state.minPayment))
         IN  [payment |-> payment, interest |-> interest,
              newBalance |-> r2(Max(0, state.balance + interest - payment))]

\* [payment, interest, newBalance] of one debt for one month
stepDebt(state, extraCash) ==
    IF state.paidOff \/ state.balance <= 0
    THEN [payment |-> 0, interest |-> 0, newBalance |-> 0]
    ELSE LET interest == r2q(state.balance * state.annualRate, 1200)
             payment ==
                 IF state.strategy = "instant"
                 THEN r2(state.balance + interest)
                 ELSE IF state.strategy = "aggressive"
                 THEN r2q(Min(10 * (state.balance + interest),
                              10 * state.minPayment + Max(0, 3 * extraCash)), 10)
                 ELSE r2(Min(state.balance + interest, state.minPayment))
         IN  [payment |-> payment, interest |-> interest,
              newBalance |-> r2(Max(0, state.balance + interest - payment))]

stepInvestment(value, contribution, annualReturn) ==
    r2q(value * (1200 + annualReturn) + 1200 * contribution, 1200)

\* Math.pow(1 + inflationRate / 100 / 12, month) as the fraction
\* inflationMultiplier[1] / inflationMultiplier[2], in lowest terms
inflationMultiplier(inflationRate, month) ==
    LET g == GCD(1200 + inflationRate, 1200)
    IN  << Pow((1200 + inflationRate) \div g, month), Pow(1200 \div g, month) >>

\* the sum of the amounts of the one-time events of a month
oneTimeNetOf(events, month) ==
    r2(SumSeq([i \in DOMAIN events |->
                 IF events[i].month = month THEN events[i].amount ELSE 0]))

\* the loop runs one month too far
inHorizon_inclusive(month, months) == month <= months

\* for (let m = 0; m < months; m++)
inHorizon(month, months) == month < months

\* a closing cash of exactly 0 is recorded too
recordNegative_nonPositive(neg, closingCash, month) ==
    IF closingCash <= 0 THEN Append(neg, month) ELSE neg

\* if (cash < 0) negativeCashMonths.push(m)
recordNegative(neg, closingCash, month) ==
    IF closingCash < 0 THEN Append(neg, month) ELSE neg

\* the income total of a month is that of the last income alone
grossIncomeOf_lastOnly(incomes, month) ==
    IF incomes = <<>> THEN 0
    ELSE r2(monthlyIncome(incomes[Len(incomes)], month))

\* r2(incomes.reduce((s, inc) => s + monthlyIncome(inc, m), 0))
grossIncomeOf(incomes, month) ==
    r2(SumSeq([i \in DOMAIN incomes |-> monthlyIncome(incomes[i], month)]))

\* the surplus is a pool: what the earlier debts of the list paid above
\* their minimum is no longer there for the later ones
RECURSIVE debtSteps_sharedPool(_, _)
debtSteps_sharedPool(states, extraCash) ==
    IF states = <<>> THEN <<>>
    ELSE LET front == debtSteps_sharedPool(SubSeq(states, 1, Len(states) - 1),
                                           extraCash)
             used == SumSeq([i \in DOMAIN front |-> front[i].payment])
         IN  Append(front, stepDebt(states[Len(states)], Max(0, extraCash - used)))

\* debtStates.forEach((ds, di) => stepDebt(ds, extraCash)): every debt is
\* stepped with the same extraCash
debtSteps(states, extraCash) ==
    [di \in DOMAIN states |-> stepDebt(states[di], extraCash)]

\* the running interest total is overwritten by the month's interest
accrueInterest_overwrites(total, thisMonth) == r2(thisMonth)

\* totalInterestPaid = r2(totalInterestPaid + totalInterestThisMonth)
accrueInterest(total, thisMonth) == r2(total + thisMonth)

\* the paidOff flag is never set
markPaidOff_never(paidOff, newBalance) == paidOff

\* if (newBalance <= 0) debtStates[di].paidOff = true
markPaidOff(paidOff, newBalance) == IF newBalance <= 0 THEN TRUE ELSE paidOff

\* contributions and debt payments stop at an empty account
closingCash_flooredAtZero(preDebtCash, totalDebtPayment, totalContrib) ==
    Max(0, r2(preDebtCash - totalDebtPayment - totalContrib))

\* cash = r2(preDebtCash - totalDebtPayment - totalContrib)
closingCash(preDebtCash, totalDebtPayment, totalContrib) ==
    r2(preDebtCash - totalDebtPayment - totalContrib)

\* debts are left out of the net worth
netWorthOf_withoutDebt(closing, totalInv, totalDebt) == r2(closing + totalInv)

\* const netWorth = r2(cash + totalInv - totalDebt)
netWorthOf(closing, totalInv, totalDebt) == r2(closing + totalInv - totalDebt)

\* the month is taken again every month the debts are at 0
recordDebtFree_lastMonth(recorded, totalDebt, nDebts, month) ==
    IF totalDebt = 0 /\ nDebts > 0 THEN month ELSE recorded

\* if (debtFreeMonth === null && totalDebt === 0 && debts.length > 0)
\*     debtFreeMonth = m
recordDebtFree(recorded, totalDebt, nDebts, month) ==
    IF recorded = Null /\ totalDebt = 0 /\ nDebts > 0 THEN month ELSE recorded

\* the metric a goal of this type is measured on
goalMetric(goal, closing, netWorth, totalInv) ==
    IF goal.type = "savings" THEN closing
    ELSE IF goal.type = "net_worth" THEN netWorth
    ELSE totalInv

\* an achievement is withdrawn when the metric is below the target again
trackGoal_retracting(achieved, goal, actual, month) ==
    IF actual >= goal.targetAmount
    THEN (IF achieved # Null THEN achieved ELSE month)
    ELSE Null

\* if (goalAchievedMonth[gi] !== null) return;
\* if (actual >= goal.targetAmount) goalAchievedMonth[gi] = m
trackGoal(achieved, goal, actual, month) ==
    IF achieved # Null THEN achieved
    ELSE IF actual >= goal.targetAmount THEN month
    ELSE achieved

\* process.env when no variable of the advisor is set
DefaultEnv ==
    [AI_PROVIDER |-> Unset, AI_MODEL |-> Unset,
     OPENAI_API_KEY |-> FALSE, ANTHROPIC_API_KEY |-> FALSE]

\* debtStates is the debts array itself, not a copy: the month's balances
\* are written into the scenario of the caller
scenarioAfterMonth_aliasedDebts(sc, st) ==
    [sc EXCEPT !.debts = [i \in DOMAIN sc.debts |->
                            [sc.debts[i] EXCEPT !.balance = st.debtStates[i].balance]]]

\* the scenario of the caller after a month of the loop: debtStates and
\* invValues are fresh copies (debts.map, investments.map) and nothing is
\* assigned to the scenario or to its items
scenarioAfterMonth(sc, st) == sc

\* the locals of computeForecast before the month loop
forecastLocals(sc) ==
    [m |-> 0,
     cash |-> sc.initialCash,
     debtStates |-> [i \in DOMAIN sc.debts |->
                       [balance |-> sc.debts[i].balance,
                        annualRate |-> sc.debts[i].annualRate,
                        minPayment |-> sc.debts[i].minPayment,
                        strategy |-> sc.debts[i].strategy,
                        paidOff |-> FALSE]],
     invValues |-> [i \in DOMAIN sc.investments |-> sc.investments[i].currentValue],
     snapshots |-> <<>>,
     totalInterestPaid |-> 0,
     totalTaxPaid |-> 0,
     negativeCashMonths |-> <<>>,
     debtFreeMonth |-> Null,
     minCash |-> sc.initialCash,
     minCashMonth |-> 0,
     goalAchievedMonth |-> [gi \in DOMAIN sc.goals |-> Null]]

\* one iteration of the month loop: the locals after month st.m
forecastMonth(sc, st) ==
    LET grossIncome == grossIncomeOf(sc.incomes, st.m)
        taxThisMonth == r2q(grossIncome * sc.taxRate, 100)
        netIncome == r2(grossIncome - taxThisMonth)
        infl == inflationMultiplier(sc.inflationRate, st.m)
        totalExpenses ==
            r2q(SumSeq([i \in DOMAIN sc.expenses |->
                          monthlyExpense(sc.expenses[i], st.m) * infl[1]]),
                infl[2])
        oneTimeNet == oneTimeNetOf(sc.oneTimeEvents, st.m)
        preDebtCash == r2(st.cash + netIncome - totalExpenses + oneTimeNet)
        extraCash == Max(0, preDebtCash)
        steps == debtSteps(st.debtStates, extraCash)
        newDebtStates ==
            [di \in DOMAIN st.debtStates |->
               [st.debtStates[di] EXCEPT
                  !.balance = steps[di].newBalance,
                  !.paidOff = markPaidOff(@, steps[di].newBalance)]]
        totalDebtPayment ==
            r2Accumulate([di \in DOMAIN steps |-> steps[di].payment])
        totalInterestThisMonth ==
            r2Accumulate([di \in DOMAIN steps |-> steps[di].interest])
        newInvValues ==
            [ii \in DOMAIN st.invValues |->
               stepInvestment(st.invValues[ii],
                              sc.investments[ii].monthlyContribution,
                              sc.investments[ii].expectedAnnualReturn)]
        totalContrib ==
            r2Accumulate([ii \in DOMAIN st.invValues |->
                            sc.investments[ii].monthlyContribution])
        newCash == closingCash(preDebtCash, totalDebtPayment, totalContrib)
        totalDebt ==
            r2(SumSeq([di \in DOMAIN newDebtStates |-> newDebtStates[di].balance]))
        totalInv == r2(SumSeq(newInvValues))
        netWorth == netWorthOf(newCash, totalInv, totalDebt)
    IN  [m |-> st.m + 1,
         cash |-> newCash,
         debtStates |-> newDebtStates,
         invValues |-> newInvValues,
         snapshots |-> Append(st.snapshots,
             [month |-> st.m,
              cash |-> newCash,
              netWorth |-> netWorth,
              totalDebt |-> totalDebt,
              totalInvestments |-> totalInv,
              totalIncome |-> netIncome,
              totalExpenses |-> totalExpenses,
              totalDebtPayment |-> totalDebtPayment,
              totalInvestmentContribution |-> totalContrib]),
         totalInterestPaid |->
             accrueInterest(st.totalInterestPaid, totalInterestThisMonth),
         totalTaxPaid |-> r2(st.totalTaxPaid + taxThisMonth),
         negativeCashMonths |-> recordNegative(st.negativeCashMonths, newCash, st.m),
         debtFreeMonth |->
             recordDebtFree(st.debtFreeMonth, totalDebt, Len(sc.debts), st.m),
         minCash |-> IF newCash < st.minCash THEN newCash ELSE st.minCash,
         minCashMonth |-> IF newCash < st.minCash THEN st.m ELSE st.minCashMonth,
         goalAchievedMonth |->
             [gi \in DOMAIN sc.goals |->
                trackGoal(st.goalAchievedMonth[gi], sc.goals[gi],
                          goalMetric(sc.goals[gi], newCash, netWorth, totalInv),
                          st.m)]]

\* summary of the ForecastResult computeForecast returns
forecastSummary(st) ==
    LET last == st.snapshots[Len(st.snapshots)]
    IN  [endCash |-> last.cash,
         endNetWorth |-> last.netWorth,
         minCash |-> st.minCash,
         minCashMonth |-> st.minCashMonth,
         negativeCashMonths |-> st.negativeCashMonths,
         debtFreeMonth |-> st.debtFreeMonth,
         totalInterestPaid |-> st.totalInterestPaid,
         endInvestmentValue |-> last.totalInvestments,
         totalTaxPaid |-> st.totalTaxPaid]

\* goalProgress of the ForecastResult computeForecast returns
forecastGoalProgress(sc, st) ==
    [gi \in DOMAIN sc.goals |->
       LET goal == sc.goals[gi]
           achievedMonth == st.goalAchievedMonth[gi]
           snapshotAtTarget ==
               st.snapshots[Min(goal.targetMonth, Len(st.snapshots) - 1) + 1]
       IN  [goalId |-> goal.id,
            label |-> goal.label,
            targetAmount |-> goal.targetAmount,
            targetMonth |-> goal.targetMonth,
            achievedMonth |-> achievedMonth,
            endValue |-> goalMetric(goal, snapshotAtTarget.cash,
                                    snapshotAtTarget.netWorth,
                                    snapshotAtTarget.totalInvestments),
            onTrack |-> achievedMonth # Null /\ achievedMonth <= goal.targetMonth]]

\* the month loop run to its end from the locals st
RECURSIVE forecastLoop(_, _)
forecastLoop(sc, st) ==
    IF inHorizon(st.m, sc.months) THEN forecastLoop(sc, forecastMonth(sc, st))
    ELSE st

\* the ForecastResult of a whole call
computeForecast(sc) ==
    LET st == forecastLoop(sc, forecastLocals(sc))
    IN  [snapshots |-> st.snapshots,
         summary |-> forecastSummary(st),
         goalProgress |-> forecastGoalProgress(sc, st)]

\* the locals of the call in progress, as one record
locals ==
    [m |-> m, cash |-> cash, debtStates |-> debtStates, invValues |-> invValues,
     snapshots |-> snapshots, totalInterestPaid |-> totalInterestPaid,
     totalTaxPaid |-> totalTaxPaid, negativeCashMonths |-> negativeCashMonths,
     debtFreeMonth |-> debtFreeMonth, minCash |-> minCash,
     minCashMonth |-> minCashMonth, goalAchievedMonth |-> goalAchievedMonth]

\* the locals take the values of the record st
SetLocals(st) ==
    /\ m' = st.m
    /\ cash' = st.cash
    /\ debtStates' = st.debtStates
    /\ invValues' = st.invValues
    /\ snapshots' = st.snapshots
    /\ totalInterestPaid' = st.totalInterestPaid
    /\ totalTaxPaid' = st.totalTaxPaid
    /\ negativeCashMonths' = st.negativeCashMonths
    /\ debtFreeMonth' = st.debtFreeMonth
    /\ minCash' = st.minCash
    /\ minCashMonth' = st.minCashMonth
    /\ goalAchievedMonth' = st.goalAchievedMonth

\* the locals have the values of the record st
LocalsAre(st) ==
    /\ m = st.m
    /\ cash = st.cash
    /\ debtStates = st.debtStates
    /\ invValues = st.invValues
    /\ snapshots = st.snapshots
    /\ totalInterestPaid = st.totalInterestPaid
    /\ totalTaxPaid = st.totalTaxPaid
    /\ negativeCashMonths = st.negativeCashMonths
    /\ debtFreeMonth = st.debtFreeMonth
    /\ minCash = st.minCash
    /\ minCashMonth = st.minCashMonth
    /\ goalAchievedMonth = st.goalAchievedMonth

\* no request was answered yet: the advisor module is freshly loaded
ServerIdle ==
    /\ prefs = [emergencyFundMonths |-> Null]
    /\ memCache = <<>>
    /\ llm = [kind |-> "none"]
    /\ run = <<>>
    /\ calls = 1
    /\ history = {}

\* the headers of a request: the addresses of x-forwarded-for (none when the
\* header is absent) and x-real-ip
HeaderChoices ==
    { [xForwardedFor |-> << "10.0.0.1", "10.0.0.9" >>, xRealIp |-> Unset],
      [xForwardedFor |-> <<>>, xRealIp |-> "10.0.0.1"],
      [xForwardedFor |-> <<>>, xRealIp |-> Unset] }

\* req.headers.get('x-forwarded-for')?.split(',')[0]?.trim()
\*     ?? req.headers.get('x-real-ip') ?? 'unknown'
clientIp(headers) ==
    IF Len(headers.xForwardedFor) > 0 THEN headers.xForwardedFor[1]
    ELSE IF headers.xRealIp # Unset THEN headers.xRealIp
    ELSE "unknown"

IPs == { clientIp(h) : h \in HeaderChoices }

\* the POST handlers that can be in flight at the same time
MaxHandlers == 2

Handlers == 1..MaxHandlers

\* the advisor route is freshly loaded and no request was received
RateLimitIdle ==
    /\ rateLimitMap = [ip \in {} |-> Null]
    /\ now = 0
    /\ rl = [ip |-> "none", ok |-> TRUE, remaining |-> 0, resetAt |-> 0]
    /\ accepted = [ip \in IPs |-> 0]

PersistIdle ==
    reqs = [h \in Handlers |->
              [pos |-> "start", effectiveId |-> "", inputHash |-> "",
               model |-> "", existing |-> FALSE]]

ApiIdle ==
    /\ RateLimitIdle
    /\ PersistIdle
    /\ db = [configured |-> FALSE, advisorRun |-> <<>>]

Init ==
    /\ scenario \in Scenarios
    /\ pc = "loop"
    /\ LocalsAre(forecastLocals(scenario))
    /\ summary = <<>>
    /\ goalProgress = <<>>
    /\ emergencyFundMonths = 3
    /\ advice = <<>>
    /\ env = DefaultEnv
    /\ ServerIdle
    /\ ApiIdle

\* one iteration of the month loop of computeForecast
ForecastMonth ==
    /\ pc = "loop"
    /\ inHorizon(m, scenario.months)
    /\ SetLocals(forecastMonth(scenario, locals))
    /\ scenario' = scenarioAfterMonth(scenario, forecastMonth(scenario, locals))
    /\ UNCHANGED apiVars
    /\ UNCHANGED << pc, summary, goalProgress, emergencyFundMonths, advice,
                    serverVars >>

\* the loop is over: computeForecast builds the result and returns
ReturnForecast ==
    /\ pc = "loop"
    /\ ~inHorizon(m, scenario.months)
    /\ summary' = forecastSummary(locals)
    /\ goalProgress' = forecastGoalProgress(scenario, locals)
    /\ history' = history \cup
           { << scenario, [snapshots |-> snapshots,
                           summary |-> forecastSummary(locals),
                           goalProgress |-> forecastGoalProgress(scenario, locals)] >> }
    /\ pc' = "forecast"
    /\ UNCHANGED apiVars
    /\ UNCHANGED << scenario, localVars, emergencyFundMonths, advice,
                    prefs, env, memCache, llm, run, calls >>

----------------------------------------------------------------------------
(* The heuristic advisor *)

\* emergencyFundMonths values passed by the caller (3 is the default)
EmergencyFundChoices == {1, 3}

\* <<x>> when the rule applies, nothing otherwise
When(cond, x) == IF cond THEN << x >> ELSE <<>>

\* array.slice(0, n)
Slice(s, n) == SubSeq(s, 1, Min(n, Len(s)))

SetMin(S) == CHOOSE x \in S : \A y \in S : x <= y

\* r2(sum of balance * annualRate / 100)
totalInterestEstimate(sc) ==
    r2q(SumSeq([i \in DOMAIN sc.debts |->
                  sc.debts[i].balance * sc.debts[i].annualRate]), 100)

\* every negative month gets its alert: the slice(0, 5) is missing
negativeCashAlerts_uncapped(snaps, sm) ==
    [i \in DOMAIN sm.negativeCashMonths |->
       [type |-> "cash",
        message |-> << "Cash goes negative",
                       r2(snaps[sm.negativeCashMonths[i] + 1].cash),
                       sm.negativeCashMonths[i] + 1 >>,
        monthIndex |-> sm.negativeCashMonths[i]]]

\* one alert per negative month, the first 5 only; the message carries the
\* interpolated values
negativeCashAlerts(snaps, sm) ==
    LET neg == Slice(sm.negativeCashMonths, 5)
    IN  [i \in DOMAIN neg |->
           [type |-> "cash",
            message |-> << "Cash goes negative", r2(snaps[neg[i] + 1].cash), neg[i] + 1 >>,
            monthIndex |-> neg[i]]]

\* the 0-based months i >= 1 whose total expenses exceed the previous
\* month's by more than 20%
spikeMonths(snaps) ==
    { i \in 1..(Len(snaps) - 1) :
        LET prev == snaps[i].totalExpenses
            curr == snaps[i + 1].totalExpenses
        IN  prev > 0 /\ 5 * (curr - prev) > prev }

\* the scan stops at the first spike
expenseSpikeAlert(snaps) ==
    IF spikeMonths(snaps) = {} THEN <<>>
    ELSE LET i == SetMin(spikeMonths(snaps))
         IN  << [type |-> "rent",
                 message |-> << "Expense spike",
                                r2(snaps[i + 1].totalExpenses - snaps[i].totalExpenses),
                                i + 1 >>,
                 monthIndex |-> i] >>

debtAlert(sc) ==
    When(totalInterestEstimate(sc) > 0,
         [type |-> "debt",
          message |-> << "Estimated annual interest drag", totalInterestEstimate(sc) >>,
          monthIndex |-> 0])

\* average of the total expenses of the first 3 months
monthlyExpensesOf(snaps) ==
    IF Len(snaps) > 0
    THEN r2q(SumSeq([i \in DOMAIN Slice(snaps, 3) |-> snaps[i].totalExpenses]),
             Min(3, Len(snaps)))
    ELSE 0

\* the alert points one past the last snapshot
emergencyAlert_pastTheEnd(snaps, sm, efm) ==
    LET emergencyTarget == r2(monthlyExpensesOf(snaps) * efm)
    IN  When(sm.endCash < emergencyTarget,
             [type |-> "cash",
              message |-> << "Emergency buffer below target", efm, emergencyTarget,
                             sm.endCash >>,
              monthIndex |-> Len(snaps)])

emergencyAlert(snaps, sm, efm) ==
    LET emergencyTarget == r2(monthlyExpensesOf(snaps) * efm)
    IN  When(sm.endCash < emergencyTarget,
             [type |-> "cash",
              message |-> << "Emergency buffer below target", efm, emergencyTarget,
                             sm.endCash >>,
              monthIndex |-> Len(snaps) - 1])

heuristicAlerts(sc, snaps, sm, efm) ==
    negativeCashAlerts(snaps, sm)
    \o expenseSpikeAlert(snaps)
    \o debtAlert(sc)
    \o emergencyAlert(snaps, sm, efm)

\* the insights before slice(0, 6); title and why carry the interpolated values
heuristicInsights(sc, sm) ==
    LET rules ==
            << [title |-> << "Projected net worth" >>,
                why |-> << "over months", sc.months >>,
                impact_aed |-> sm.endNetWorth,
                confidence |-> "high"] >>
            \o When(sm.debtFreeMonth # Null,
                    [title |-> << "Debt-free in month", sm.debtFreeMonth + 1 >>,
                     why |-> << "all debts clear by month", sm.debtFreeMonth + 1,
                                totalInterestEstimate(sc) >>,
                     impact_aed |-> totalInterestEstimate(sc),
                     confidence |-> "med"])
            \o When(Len(sm.negativeCashMonths) > 0,
                    [title |-> << "months of negative cash", Len(sm.negativeCashMonths) >>,
                     why |-> << "Expenses + debt payments exceed income" >>,
                     impact_aed |-> r2(sm.minCash),
                     confidence |-> "high"])
            \o When(Len(sc.investments) > 0,
                    [title |-> << "Investment contributions active" >>,
                     why |-> << "Monthly contributions",
                                r2(SumSeq([i \in DOMAIN sc.investments |->
                                             sc.investments[i].monthlyContribution])),
                                sm.endInvestmentValue >>,
                     impact_aed |-> sm.endInvestmentValue,
                     confidence |-> "med"])
    IN  rules
        \o When(Len(rules) < 3,
                [title |-> << "Cash flow appears stable" >>,
                 why |-> << "No critical cash shortfalls" >>,
                 impact_aed |-> sm.minCash,
                 confidence |-> "med"])

aggressiveDebtAction(sc) ==
    LET totalDebt == r2(SumSeq([i \in DOMAIN sc.debts |-> sc.debts[i].balance]))
    IN  When(totalDebt > 0 /\ \E i \in DOMAIN sc.debts : sc.debts[i].strategy # "aggressive",
             [id |-> "aggressive-debt",
              label |-> "Accelerate debt repayment",
              changes |-> [debtStrategy |-> "aggressive"],
              expectedOutcome |->
                  [netWorthDelta |-> r2q(totalInterestEstimate(sc) * 4, 10),
                   minCashDelta |-> r2q(-sc.debts[1].minPayment * 3, 10)]])

isDiscretionary(e) == e.category = "discretionary"

\* offered on any negative month, whether or not a discretionary expense exists
reduceDiscretionaryAction_withoutExpenseTest(sc, sm) ==
    LET discretionary == SelectSeq(sc.expenses, isDiscretionary)
        totalDisc == r2(SumSeq([i \in DOMAIN discretionary |-> discretionary[i].amount]))
        cut == r2q(totalDisc * 15, 100)
    IN  When(Len(sm.negativeCashMonths) > 0,
             [id |-> "reduce-discretionary",
              label |-> "Reduce discretionary spending 15%",
              changes |->
                  [expenseAdjustments |->
                     [i \in DOMAIN discretionary |->
                        [expenseId |-> discretionary[i].id,
                         delta |-> r2q(-discretionary[i].amount * 15, 100)]]],
              expectedOutcome |->
                  [netWorthDelta |-> r2(cut * sc.months), minCashDelta |-> r2(cut)]])

reduceDiscretionaryAction(sc, sm) ==
    LET discretionary == SelectSeq(sc.expenses, isDiscretionary)
        totalDisc == r2(SumSeq([i \in DOMAIN discretionary |-> discretionary[i].amount]))
        cut == r2q(totalDisc * 15, 100)
    IN  When(Len(discretionary) > 0 /\ Len(sm.negativeCashMonths) > 0,
             [id |-> "reduce-discretionary",
              label |-> "Reduce discretionary spending 15%",
              changes |->
                  [expenseAdjustments |->
                     [i \in DOMAIN discretionary |->
                        [expenseId |-> discretionary[i].id,
                         delta |-> r2q(-discretionary[i].amount * 15, 100)]]],
              expectedOutcome |->
                  [netWorthDelta |-> r2(cut * sc.months), minCashDelta |-> r2(cut)]])

boostInvestmentsAction(sc) ==
    When(Len(sc.investments) > 0,
         [id |-> "boost-investments",
          label |-> "Increase investment contribution by 10%",
          changes |->
              [investmentAdjustments |->
                 << [accountId |-> sc.investments[1].id,
                     monthlyContributionDelta |->
                         r2q(sc.investments[1].monthlyContribution, 10),
                     expectedReturnDelta |-> 0] >>],
          expectedOutcome |->
              [netWorthDelta |->
                   r2q(sc.investments[1].monthlyContribution * sc.months * 13, 100),
               minCashDelta |-> r2q(-sc.investments[1].monthlyContribution, 10)]])

heuristicActions(sc, sm) ==
    aggressiveDebtAction(sc) \o reduceDiscretionaryAction(sc, sm) \o boostInvestmentsAction(sc)

runHeuristicAdvisor(sc, snaps, sm, efm) ==
    [insights |-> Slice(heuristicInsights(sc, sm), 6),
     alerts |-> heuristicAlerts(sc, snaps, sm, efm),
     actions |-> heuristicActions(sc, sm)]

\* AdvisorResponseSchema.safeParse(r).success: the required fields are
\* present, enums and bounds hold (string and number types are not modelled)
AdvisorResponseSchema(r) ==
    /\ {"insights", "alerts", "actions"} \subseteq DOMAIN r
    /\ Len(r.insights) >= 1
    /\ Len(r.insights) <= 6
    /\ \A i \in DOMAIN r.insights :
          /\ {"title", "why", "impact_aed", "confidence"} \subseteq DOMAIN r.insights[i]
          /\ r.insights[i].confidence \in {"low", "med", "high"}
    /\ \A i \in DOMAIN r.alerts :
          /\ {"type", "message", "monthIndex"} \subseteq DOMAIN r.alerts[i]
          /\ r.alerts[i].type \in {"cash", "debt", "rent", "fx", "portfolio"}
          /\ r.alerts[i].monthIndex \in Int
          /\ r.alerts[i].monthIndex >= 0
    /\ \A i \in DOMAIN r.actions :
          /\ {"id", "label", "changes", "expectedOutcome"} \subseteq DOMAIN r.actions[i]
          /\ "debtStrategy" \in DOMAIN r.actions[i].changes
                => r.actions[i].changes.debtStrategy \in {"min", "aggressive", "instant"}
          /\ "expenseAdjustments" \in DOMAIN r.actions[i].changes
                => \A j \in DOMAIN r.actions[i].changes.expenseAdjustments :
                      {"expenseId", "delta"}
                          \subseteq DOMAIN r.actions[i].changes.expenseAdjustments[j]
          /\ "investmentAdjustments" \in DOMAIN r.actions[i].changes
                => \A j \in DOMAIN r.actions[i].changes.investmentAdjustments :
                      {"accountId", "monthlyContributionDelta", "expectedReturnDelta"}
                          \subseteq DOMAIN r.actions[i].changes.investmentAdjustments[j]
          /\ {"netWorthDelta", "minCashDelta"} \subseteq DOMAIN r.actions[i].expectedOutcome

\* xs.find((a) => a[key] === id): the first adjustment for an item, or Null
FindAdjustment(xs, key, id) ==
    LET hits == { j \in DOMAIN xs : xs[j][key] = id }
    IN  IF hits = {} THEN Null ELSE xs[SetMin(hits)]

\* only the first debt is switched to the action's strategy
handleApplyAction_firstDebtOnly(sc, action) ==
    [sc EXCEPT !.debts =
        [i \in DOMAIN sc.debts |->
           IF i = 1 /\ "debtStrategy" \in DOMAIN action.changes
           THEN [sc.debts[i] EXCEPT !.strategy = action.changes.debtStrategy]
           ELSE sc.debts[i]]]

\* the scenario of the dashboard after an advisor action is applied
handleApplyAction(sc, action) ==
    LET ch == action.changes
        adjusted(xs, listKey, idKey, id) ==
            IF listKey \in DOMAIN ch THEN FindAdjustment(ch[listKey], idKey, id)
            ELSE Null
    IN  [sc EXCEPT
           !.debts =
               [i \in DOMAIN sc.debts |->
                  IF "debtStrategy" \in DOMAIN ch
                  THEN [sc.debts[i] EXCEPT !.strategy = ch.debtStrategy]
                  ELSE sc.debts[i]],
           !.expenses =
               [i \in DOMAIN sc.expenses |->
                  LET adj == adjusted(sc.expenses, "expenseAdjustments",
                                      "expenseId", sc.expenses[i].id)
                  IN  IF adj = Null THEN sc.expenses[i]
                      ELSE [sc.expenses[i] EXCEPT !.amount = Max(0, @ + adj.delta)]],
           !.incomes =
               [i \in DOMAIN sc.incomes |->
                  LET adj == adjusted(sc.incomes, "incomeAdjustments",
                                      "incomeId", sc.incomes[i].id)
                  IN  IF adj = Null THEN sc.incomes[i]
                      ELSE [sc.incomes[i] EXCEPT !.amount = Max(0, @ + adj.delta)]],
           !.investments =
               [i \in DOMAIN sc.investments |->
                  LET adj == adjusted(sc.investments, "investmentAdjustments",
                                      "accountId", sc.investments[i].id)
                  IN  IF adj = Null THEN sc.investments[i]
                      ELSE [sc.investments[i] EXCEPT
                              !.monthlyContribution =
                                  Max(0, @ + adj.monthlyContributionDelta),
                              !.expectedAnnualReturn =
                                  Max(0, @ + adj.expectedReturnDelta)]]]

\* the caller passes the scenario and the forecast to runHeuristicAdvisor
Advise ==
    /\ pc = "forecast"
    /\ \E efm \in EmergencyFundChoices :
          /\ emergencyFundMonths' = efm
          /\ advice' = runHeuristicAdvisor(scenario, snapshots, summary, efm)
    /\ pc' = "advised"
    /\ UNCHANGED apiVars
    /\ UNCHANGED << scenario, localVars, summary, goalProgress, serverVars >>

Next ==
    \/ ForecastMonth
    \/ ReturnForecast
    \/ Advise

Spec == Init /\ [][Next]_vars

----------------------------------------------------------------------------
(* The advisor orchestrator (lib/advisor runAdvisor) and a server process  *)
(* that answers one request after another.  memCache lives as long as the  *)
(* process; every other value belongs to one call.                         *)

\* forecast calls made by the server process before it is left alone
MaxCalls == 3

\* x ?? d for a number or null
Coalesce(x, d) == IF x = Null THEN d ELSE x

\* process.env.X ?? d
EnvOr(x, d) == IF x = Unset THEN d ELSE x

\* Partial<UserPreferences>: emergencyFundMonths is absent (Null) or a number;
\* riskProfile and advisorTone are left out by every caller explored
PrefsChoices ==
    { [emergencyFundMonths |-> Null], [emergencyFundMonths |-> 1] }

\* process.env of the server process
EnvChoices ==
    { DefaultEnv,
      [AI_PROVIDER |-> "openai", AI_MODEL |-> Unset,
       OPENAI_API_KEY |-> FALSE, ANTHROPIC_API_KEY |-> FALSE],
      [AI_PROVIDER |-> "openai", AI_MODEL |-> "gpt-4o-mini",
       OPENAI_API_KEY |-> TRUE, ANTHROPIC_API_KEY |-> FALSE],
      [AI_PROVIDER |-> "anthropic", AI_MODEL |-> Unset,
       OPENAI_API_KEY |-> FALSE, ANTHROPIC_API_KEY |-> TRUE] }

\* the scenarios the requests of the server process carry
ServerScenarios ==
    { [months |-> 2, initialCash |-> 20000,
       incomes |-> << Income("i1", 10000, 0, Null, 0) >>,
       expenses |-> << Expense("e1", 7000, "rent", 0, Null, 0, FALSE),
                       Expense("e2", 5000, "discretionary", 0, Null, 0, FALSE) >>,
       debts |-> de, investments |-> <<>>,
       inflationRate |-> 0, taxRate |-> 0, oneTimeEvents |-> <<>>,
       goals |-> <<>>] :
         de \in { <<>>,
                  << Debt("d1", 8000, 12, 1000, "aggressive") >>,
                  << Debt("d1", 8000, 12, 1000, "min") >>,
                  << Debt("d1", 8000, 12, 6400, "min") >> } }

\* what the provider can answer: candidate responses as parsed JSON values
GoodInsight ==
    [title |-> "Cash is stable", why |-> "Income covers expenses",
     impact_aed |-> 0, confidence |-> "high"]

GoodCandidate ==
    [insights |-> << GoodInsight >>,
     alerts |-> << [type |-> "cash", message |-> "Watch month 1", monthIndex |-> 0] >>,
     actions |-> << [id |-> "llm-debt", label |-> "Pay debt faster",
                     changes |-> [debtStrategy |-> "aggressive"],
                     expectedOutcome |-> [netWorthDelta |-> 1000,
                                          minCashDelta |-> -1000]] >>]

Candidates ==
    { GoodCandidate,
      \* a field the schema does not name, at the top level and in an insight
      [insights |-> << GoodInsight >>, alerts |-> <<>>, actions |-> <<>>,
       disclaimer |-> "informational only"],
      [insights |-> << [title |-> "Cash is stable", why |-> "Income covers expenses",
                        impact_aed |-> 0, confidence |-> "high",
                        source |-> "llm"] >>,
       alerts |-> <<>>, actions |-> <<>>],
      \* enum values outside the allowed sets
      [insights |-> << [GoodInsight EXCEPT !.confidence = "certain"] >>,
       alerts |-> <<>>, actions |-> <<>>],
      [GoodCandidate EXCEPT !.alerts[1].type = "tax"],
      [GoodCandidate EXCEPT !.actions[1].changes.debtStrategy = "snowball"],
      \* too few and too many insights
      [insights |-> <<>>, alerts |-> <<>>, actions |-> <<>>],
      [insights |-> [i \in 1..7 |-> GoodInsight], alerts |-> <<>>, actions |-> <<>>] }

\* buildSummary(scenario, forecast, prefs); currency is the same in every
\* scenario explored and is left out
buildSummary(sc, sm, pf) ==
    [months |-> sc.months,
     totalMonthlyIncome |->
         r2(SumSeq([i \in DOMAIN sc.incomes |-> sc.incomes[i].amount])),
     totalMonthlyFixedExpenses |->
         r2(SumSeq([i \in DOMAIN sc.expenses |->
                      IF sc.expenses[i].category \in {"fixed", "rent"}
                      THEN sc.expenses[i].amount ELSE 0])),
     totalMonthlyDiscretionary |->
         r2(SumSeq([i \in DOMAIN sc.expenses |->
                      IF sc.expenses[i].category = "discretionary"
                      THEN sc.expenses[i].amount ELSE 0])),
     totalDebtBalance |->
         r2(SumSeq([i \in DOMAIN sc.debts |-> sc.debts[i].balance])),
     totalDebtAnnualInterest |->
         r2q(SumSeq([i \in DOMAIN sc.debts |->
                       sc.debts[i].balance * sc.debts[i].annualRate]), 100),
     totalInvestmentValue |->
         r2(SumSeq([i \in DOMAIN sc.investments |-> sc.investments[i].currentValue])),
     totalMonthlyContribution |->
         r2(SumSeq([i \in DOMAIN sc.investments |->
                      sc.investments[i].monthlyContribution])),
     forecast |-> sm,
     preferences |->
         [riskProfile |-> "med",
          emergencyFundMonths |-> Coalesce(pf.emergencyFundMonths, 3),
          advisorTone |-> "concise"]]

\* the first 16 hex digits of the SHA-256 of JSON.stringify(summary): equal
\* summaries have equal hashes, and different summaries are taken to have
\* different ones (no 64-bit collision)
hashSummary(s) == << "sha256", s >>

\* const provider = process.env.AI_PROVIDER ?? 'mock'
providerOf(e) == EnvOr(e.AI_PROVIDER, "mock")

\* const model = provider === 'mock' ? 'heuristic-v1'
\*                                   : (process.env.AI_MODEL ?? provider)
modelOf(e) ==
    IF providerOf(e) = "mock" THEN "heuristic-v1"
    ELSE EnvOr(e.AI_MODEL, providerOf(e))

\* provider === 'mock' || (!OPENAI_API_KEY && !ANTHROPIC_API_KEY)
heuristicPath(e) ==
    providerOf(e) = "mock" \/ (~e.OPENAI_API_KEY /\ ~e.ANTHROPIC_API_KEY)

\* the fallback ignores the caller's preferences
fallbackResponse_defaultPrefs(sc, snaps, sm, pf) ==
    runHeuristicAdvisor(sc, snaps, sm, 3)

\* runHeuristicAdvisor(scenario, forecast, prefs.emergencyFundMonths ?? 3)
fallbackResponse(sc, snaps, sm, pf) ==
    runHeuristicAdvisor(sc, snaps, sm, Coalesce(pf.emergencyFundMonths, 3))

\* the record r without the keys that are not in keys
Strip(r, keys) == [k \in (DOMAIN r) \cap keys |-> r[k]]

\* validated.data: zod objects drop the keys their schema does not name
AdvisorResponseData(r) ==
    [insights |->
         [i \in DOMAIN r.insights |->
            Strip(r.insights[i], {"title", "why", "impact_aed", "confidence"})],
     alerts |->
         [i \in DOMAIN r.alerts |->
            Strip(r.alerts[i], {"type", "message", "monthIndex"})],
     actions |->
         [i \in DOMAIN r.actions |->
            [id |-> r.actions[i].id,
             label |-> r.actions[i].label,
             changes |-> Strip(r.actions[i].changes,
                               {"debtStrategy", "expenseAdjustments",
                                "incomeAdjustments", "investmentAdjustments",
                                "fxOverride"}),
             expectedOutcome |-> Strip(r.actions[i].expectedOutcome,
                                       {"netWorthDelta", "minCashDelta"})]]]

\* validated.success
acceptCandidate(r) == AdvisorResponseSchema(r)

\* memCache.set(key, value)
MapSet(map, key, value) ==
    [k \in (DOMAIN map) \cup {key} |-> IF k = key THEN value ELSE map[k]]

\* runAdvisor returns the cached response
RunAdvisorCacheHit ==
    /\ pc = "forecast"
    /\ \E pf \in PrefsChoices :
          LET inputHash == hashSummary(buildSummary(scenario, summary, pf))
          IN  /\ inputHash \in DOMAIN memCache
              /\ prefs' = pf
              /\ run' = [response |-> memCache[inputHash], model |-> modelOf(env),
                         inputHash |-> inputHash, fromCache |-> TRUE]
    /\ llm' = [kind |-> "none"]
    /\ pc' = "advised"
    /\ UNCHANGED apiVars
    /\ UNCHANGED << scenario, localVars, summary, goalProgress,
                    emergencyFundMonths, advice, env, memCache, calls, history >>

\* runAdvisor takes the mock / heuristic path
RunAdvisorHeuristic ==
    /\ pc = "forecast"
    /\ heuristicPath(env)
    /\ \E pf \in PrefsChoices :
          LET inputHash == hashSummary(buildSummary(scenario, summary, pf))
              response == fallbackResponse(scenario, snapshots, summary, pf)
          IN  /\ inputHash \notin DOMAIN memCache
              /\ prefs' = pf
              /\ memCache' = MapSet(memCache, inputHash, response)
              /\ run' = [response |-> response, model |-> "heuristic-v1",
                         inputHash |-> inputHash, fromCache |-> FALSE]
    /\ llm' = [kind |-> "none"]
    /\ pc' = "advised"
    /\ UNCHANGED apiVars
    /\ UNCHANGED << scenario, localVars, summary, goalProgress,
                    emergencyFundMonths, advice, env, calls, history >>

\* the AdvisorRunResult of a call that fell back to the heuristic advisor
fallbackRun(pf, label) ==
    [response |-> fallbackResponse(scenario, snapshots, summary, pf),
     model |-> label,
     inputHash |-> hashSummary(buildSummary(scenario, summary, pf)),
     fromCache |-> FALSE]

\* runAdvisor on the LLM path: the provider call throws
RunAdvisorLLMThrows ==
    /\ pc = "forecast"
    /\ ~heuristicPath(env)
    /\ \E pf \in PrefsChoices :
          /\ hashSummary(buildSummary(scenario, summary, pf)) \notin DOMAIN memCache
          /\ prefs' = pf
          /\ run' = fallbackRun(pf, "heuristic-v1")
    /\ llm' = [kind |-> "throws"]
    /\ pc' = "advised"
    /\ UNCHANGED apiVars
    /\ UNCHANGED << scenario, localVars, summary, goalProgress,
                    emergencyFundMonths, advice, env, memCache, calls, history >>

\* runAdvisor on the LLM path: JSON.parse throws on the returned text
RunAdvisorParseFails ==
    /\ pc = "forecast"
    /\ ~heuristicPath(env)
    /\ \E pf \in PrefsChoices :
          /\ hashSummary(buildSummary(scenario, summary, pf)) \notin DOMAIN memCache
          /\ prefs' = pf
          /\ run' = fallbackRun(pf, "heuristic-v1 (parse-fallback)")
    /\ llm' = [kind |-> "text", json |-> FALSE]
    /\ pc' = "advised"
    /\ UNCHANGED apiVars
    /\ UNCHANGED << scenario, localVars, summary, goalProgress,
                    emergencyFundMonths, advice, env, memCache, calls, history >>

\* runAdvisor on the LLM path: the text parses and safeParse rejects it
RunAdvisorValidationFails ==
    /\ pc = "forecast"
    /\ ~heuristicPath(env)
    /\ \E pf \in PrefsChoices, c \in Candidates :
          /\ hashSummary(buildSummary(scenario, summary, pf)) \notin DOMAIN memCache
          /\ ~acceptCandidate(c)
          /\ prefs' = pf
          /\ run' = fallbackRun(pf, "heuristic-v1 (validation-fallback)")
          /\ llm' = [kind |-> "text", json |-> TRUE, value |-> c]
    /\ pc' = "advised"
    /\ UNCHANGED apiVars
    /\ UNCHANGED << scenario, localVars, summary, goalProgress,
                    emergencyFundMonths, advice, env, memCache, calls, history >>

\* runAdvisor on the LLM path: the text parses and safeParse accepts it
RunAdvisorLLMAnswers ==
    /\ pc = "forecast"
    /\ ~heuristicPath(env)
    /\ \E pf \in PrefsChoices, c \in Candidates :
          LET inputHash == hashSummary(buildSummary(scenario, summary, pf))
          IN  /\ inputHash \notin DOMAIN memCache
              /\ acceptCandidate(c)
              /\ prefs' = pf
              /\ memCache' = MapSet(memCache, inputHash, AdvisorResponseData(c))
              /\ run' = [response |-> AdvisorResponseData(c),
                         model |-> modelOf(env),
                         inputHash |-> inputHash, fromCache |-> FALSE]
              /\ llm' = [kind |-> "text", json |-> TRUE, value |-> c]
    /\ pc' = "advised"
    /\ UNCHANGED apiVars
    /\ UNCHANGED << scenario, localVars, summary, goalProgress,
                    emergencyFundMonths, advice, env, calls, history >>

\* the server process takes the next request and starts its forecast
NextRequest ==
    /\ pc = "advised"
    /\ calls < MaxCalls
    /\ calls' = calls + 1
    /\ scenario' \in ServerScenarios
    /\ SetLocals(forecastLocals(scenario'))
    /\ pc' = "loop"
    /\ summary' = <<>>
    /\ goalProgress' = <<>>
    /\ UNCHANGED apiVars
    /\ UNCHANGED << emergencyFundMonths, advice, prefs, env, memCache, llm, run,
                    history >>

ServerInit ==
    /\ scenario \in ServerScenarios
    /\ pc = "loop"
    /\ LocalsAre(forecastLocals(scenario))
    /\ summary = <<>>
    /\ goalProgress = <<>>
    /\ emergencyFundMonths = 3
    /\ advice = <<>>
    /\ env \in EnvChoices
    /\ ServerIdle
    /\ ApiIdle

ServerNext ==
    \/ ForecastMonth
    \/ ReturnForecast
    \/ RunAdvisorCacheHit
    \/ RunAdvisorHeuristic
    \/ RunAdvisorLLMThrows
    \/ RunAdvisorParseFails
    \/ RunAdvisorValidationFails
    \/ RunAdvisorLLMAnswers
    \/ NextRequest

ServerSpec == ServerInit /\ [][ServerNext]_vars

----------------------------------------------------------------------------
(* The advisor route: rate limiting *)

RATE_LIMIT == 10

RATE_WINDOW_MS == 60000

\* the windows the clock runs through
MaxWindows == 2

\* the rejected requests of one window that are followed
MaxOverLimit == 2

\* what Date.now() can advance by between two requests
ClockSteps == { RATE_WINDOW_MS, RATE_WINDOW_MS + 1 }

\* one request more is let through
overLimit_lateByOne(count) == count > RATE_LIMIT + 1

\* entry.count > RATE_LIMIT
overLimit(count) == count > RATE_LIMIT

\* checkRateLimit(ip) at Date.now() = t: the Map after the call and the
\* returned { ok, remaining, resetAt }
checkRateLimit(map, ip, t) ==
    IF ip \notin DOMAIN map \/ t > map[ip].resetAt
    THEN LET resetAt == t + RATE_WINDOW_MS
         IN  [map |-> MapSet(map, ip, [count |-> 1, resetAt |-> resetAt]),
              result |-> [ok |-> TRUE, remaining |-> RATE_LIMIT - 1,
                          resetAt |-> resetAt]]
    ELSE LET count == map[ip].count + 1
             counted == MapSet(map, ip, [map[ip] EXCEPT !.count = count])
         IN  IF overLimit(count)
             THEN [map |-> counted,
                   result |-> [ok |-> FALSE, remaining |-> 0,
                               resetAt |-> map[ip].resetAt]]
             ELSE [map |-> counted,
                   result |-> [ok |-> TRUE, remaining |-> RATE_LIMIT - count,
                               resetAt |-> map[ip].resetAt]]

\* POST takes the ip from the headers and calls checkRateLimit; the request
\* goes on when rl.ok and is answered with 429 otherwise
CheckRateLimit ==
    /\ pc = "idle"
    /\ \E headers \in HeaderChoices :
          LET ip == clientIp(headers)
              fresh == IF ip \notin DOMAIN rateLimitMap THEN TRUE
                       ELSE now > rateLimitMap[ip].resetAt
              call == checkRateLimit(rateLimitMap, ip, now)
          IN  /\ IF fresh THEN TRUE
                 ELSE rateLimitMap[ip].count < RATE_LIMIT + MaxOverLimit
              /\ rateLimitMap' = call.map
              /\ rl' = [ip |-> ip, ok |-> call.result.ok,
                        remaining |-> call.result.remaining,
                        resetAt |-> call.result.resetAt]
              /\ accepted' = [accepted EXCEPT ![ip] =
                                 IF fresh THEN 1
                                 ELSE IF call.result.ok THEN @ + 1 ELSE @]
    /\ UNCHANGED << coreVars, now, db, reqs >>

\* time passes
Tick ==
    /\ pc = "idle"
    /\ \E d \in ClockSteps :
          /\ now + d <= MaxWindows * (RATE_WINDOW_MS + 1)
          /\ now' = now + d
    /\ UNCHANGED << coreVars, rateLimitMap, rl, accepted, db, reqs >>

\* the forecast and lib/advisor take no part
CoreIdle ==
    /\ scenario = CHOOSE sc \in ServerScenarios : Len(sc.debts) = 0
    /\ pc = "idle"
    /\ LocalsAre(forecastLocals(scenario))
    /\ summary = <<>>
    /\ goalProgress = <<>>
    /\ emergencyFundMonths = 3
    /\ advice = <<>>
    /\ env = DefaultEnv
    /\ ServerIdle

RateLimitInit ==
    /\ CoreIdle
    /\ ApiIdle

RateLimitNext ==
    \/ CheckRateLimit
    \/ Tick

RateLimitSpec == RateLimitInit /\ [][RateLimitNext]_vars

----------------------------------------------------------------------------
(* The advisor route: persisting the run *)

\* scenarioId ?? scenarioInput.id of the requests
ScenarioIds == { "s1", "s2" }

\* the inputHash values runAdvisor returns to the requests
InputHashes == { "h1", "h2" }

\* the rows of db.advisorRun that match where: { scenarioId, inputHash }
findFirst(rows, scenarioId, inputHash) ==
    { i \in DOMAIN rows : /\ rows[i].scenarioId = scenarioId
                          /\ rows[i].inputHash = inputHash }

\* db.advisorRun.create({ data }): the store takes the row
createRun(rows, data) == Append(rows, data)

\* a handler ran up to the end of runAdvisor and looks at isDbConfigured()
PostRunAdvisor ==
    /\ pc = "idle"
    /\ \E h \in Handlers, id \in ScenarioIds, hash \in InputHashes :
          /\ reqs[h].pos = "start"
          /\ reqs' = [reqs EXCEPT ![h] =
                 [pos |-> IF db.configured THEN "findFirst" ELSE "respond",
                  effectiveId |-> id, inputHash |-> hash,
                  model |-> "heuristic-v1", existing |-> FALSE]]
    /\ UNCHANGED << coreVars, rateLimitMap, now, rl, accepted, db >>

\* await db.advisorRun.findFirst(...) resolves
PostFindFirst ==
    /\ pc = "idle"
    /\ \E h \in Handlers :
          LET existing == findFirst(db.advisorRun, reqs[h].effectiveId,
                                    reqs[h].inputHash) # {}
          IN  /\ reqs[h].pos = "findFirst"
              /\ reqs' = [reqs EXCEPT ![h].existing = existing,
                                      ![h].pos = IF existing THEN "respond"
                                                 ELSE "create"]
    /\ UNCHANGED << coreVars, rateLimitMap, now, rl, accepted, db >>

\* await db.advisorRun.create(...) resolves
PostCreate ==
    /\ pc = "idle"
    /\ \E h \in Handlers :
          /\ reqs[h].pos = "create"
          /\ db' = [db EXCEPT !.advisorRun =
                       createRun(@, [scenarioId |-> reqs[h].effectiveId,
                                     model |-> reqs[h].model,
                                     inputHash |-> reqs[h].inputHash])]
          /\ reqs' = [reqs EXCEPT ![h].pos = "respond"]
    /\ UNCHANGED << coreVars, rateLimitMap, now, rl, accepted >>

\* a database call rejects: catch skips the persistence
PostDbError ==
    /\ pc = "idle"
    /\ \E h \in Handlers :
          /\ reqs[h].pos \in { "findFirst", "create" }
          /\ reqs' = [reqs EXCEPT ![h].pos = "respond"]
    /\ UNCHANGED << coreVars, rateLimitMap, now, rl, accepted, db >>

\* the handler returns the JSON response
PostRespond ==
    /\ pc = "idle"
    /\ \E h \in Handlers :
          /\ reqs[h].pos = "respond"
          /\ reqs' = [reqs EXCEPT ![h].pos = "done"]
    /\ UNCHANGED << coreVars, rateLimitMap, now, rl, accepted, db >>

PersistInit ==
    /\ CoreIdle
    /\ RateLimitIdle
    /\ PersistIdle
    /\ db \in { [configured |-> c, advisorRun |-> <<>>] : c \in BOOLEAN }

PersistNext ==
    \/ PostRunAdvisor
    \/ PostFindFirst
    \/ PostCreate
    \/ PostDbError
    \/ PostRespond

PersistSpec == PersistInit /\ [][PersistNext]_vars

----------------------------------------------------------------------------
(* Properties of the forecast engine *)

\* C1: computeForecast returns exactly scenario.months snapshots, and the
\* k-th of them (0-based) carries month == k.
C1_SnapshotPerMonth ==
    /\ \A k \in DOMAIN snapshots : snapshots[k].month = k - 1
    /\ pc # "loop" => Len(snapshots) = scenario.months

C1_Witness ==
    /\ pc = "forecast"
    /\ scenario.months >= 3
    /\ Len(snapshots) = scenario.months

MoneyFields ==
    {"cash", "netWorth", "totalDebt", "totalInvestments", "totalIncome",
     "totalExpenses", "totalDebtPayment", "totalInvestmentContribution"}

\* C2: every monetary field of every snapshot is a multiple of 0.01, also
\* when the input amounts are not.
C2_SnapshotsRounded ==
    \A k \in DOMAIN snapshots : \A f \in MoneyFields : Is2dp(snapshots[k][f])

C2_Witness ==
    /\ pc = "forecast"
    /\ Len(snapshots) >= 2
    /\ ~Is2dp(scenario.initialCash)
    /\ \E i \in DOMAIN scenario.expenses : ~Is2dp(scenario.expenses[i].amount)
    /\ \E i \in DOMAIN scenario.investments :
          ~Is2dp(scenario.investments[i].monthlyContribution)
    /\ scenario.inflationRate > 0

\* the scenario of C3: one income and one expense, both running from month 0
\* without growth, and nothing else
C3_Plain ==
    /\ scenario.debts = <<>>
    /\ scenario.investments = <<>>
    /\ scenario.taxRate = 0
    /\ scenario.inflationRate = 0
    /\ scenario.oneTimeEvents = <<>>
    /\ Len(scenario.incomes) = 1
    /\ Len(scenario.expenses) = 1
    /\ scenario.incomes[1].startMonth = 0
    /\ scenario.incomes[1].endMonth = Null
    /\ scenario.incomes[1].growthRate = 0
    /\ scenario.expenses[1].startMonth = 0
    /\ scenario.expenses[1].endMonth = Null
    /\ scenario.expenses[1].growthRate = 0
    /\ ~scenario.expenses[1].isOneTime

C3_ClosedForm ==
    \A k \in DOMAIN snapshots :
        snapshots[k].cash =
            scenario.initialCash
              + k * (scenario.incomes[1].amount - scenario.expenses[1].amount)

\* C3 as stated: in the plain scenario snapshots[k].cash is
\* initialCash + (k + 1) * (I - E), whatever the amounts.
C3_CashClosedFormAnyAmount == C3_Plain => C3_ClosedForm

\* C3, amended: in the plain scenario with initialCash, I and E multiples of
\* 0.01, snapshots[k].cash is initialCash + (k + 1) * (I - E).
C3_CashClosedForm ==
    ( /\ C3_Plain
      /\ Is2dp(scenario.initialCash)
      /\ Is2dp(scenario.incomes[1].amount)
      /\ Is2dp(scenario.expenses[1].amount) ) => C3_ClosedForm

C3_Witness ==
    /\ pc = "forecast"
    /\ C3_Plain
    /\ Is2dp(scenario.initialCash)
    /\ Is2dp(scenario.incomes[1].amount)
    /\ Is2dp(scenario.expenses[1].amount)
    /\ scenario.initialCash > 0
    /\ Len(snapshots) >= 3

\* a single debt of positive balance that is 'instant', or whose minPayment
\* covers the balance plus the first month's interest
C4_PaysInFull ==
    /\ Len(scenario.debts) = 1
    /\ scenario.debts[1].balance > 0
    /\ \/ scenario.debts[1].strategy = "instant"
       \/ scenario.debts[1].minPayment >=
             scenario.debts[1].balance
               + r2q(scenario.debts[1].balance * scenario.debts[1].annualRate, 1200)

\* C4: such a debt is fully paid in month 0: snapshots[0].totalDebt == 0 and
\* summary.debtFreeMonth == 0.
C4_PaidInMonthZero ==
    C4_PaysInFull =>
        /\ Len(snapshots) >= 1 => snapshots[1].totalDebt = 0
        /\ pc # "loop" => summary.debtFreeMonth = 0

C4_Witness ==
    /\ pc = "forecast"
    /\ C4_PaysInFull
    /\ scenario.debts[1].strategy = "instant"
    /\ scenario.debts[1].annualRate > 0
    /\ snapshots[1].totalDebtPayment > 0
    /\ summary.debtFreeMonth = 0

\* the list of negative months so far, and the one returned
C5_Listed == IF pc = "loop" THEN negativeCashMonths ELSE summary.negativeCashMonths

----------------------------------------------------------------------------
(* Properties of the heuristic advisor *)

\* C6: the response of runHeuristicAdvisor satisfies AdvisorResponseSchema:
\* 1 to 6 insights, every alert's monthIndex an integer in 0..months-1, alert
\* types and confidences within their enums, every action with id, label,
\* changes and expectedOutcome.
C6_SchemaValid ==
    pc = "advised" =>
        /\ AdvisorResponseSchema(advice)
        /\ \A i \in DOMAIN advice.alerts : advice.alerts[i].monthIndex < scenario.months

C6_Witness ==
    /\ pc = "advised"
    /\ Len(advice.insights) >= 4
    /\ Len(advice.alerts) >= 4
    /\ Len(advice.actions) = 3

\* C7: the alerts start with one 'cash' alert per entry of the first 5
\* negativeCashMonths, in order, monthIndex being that month, whose closing
\* cash is < 0; there are no other negative-month alerts.
C7_NegativeMonthAlerts ==
    pc = "advised" =>
        LET neg == summary.negativeCashMonths
            n == IF Len(neg) < 5 THEN Len(neg) ELSE 5
        IN  /\ Len(advice.alerts) >= n
            /\ \A i \in 1..n :
                  /\ advice.alerts[i].type = "cash"
                  /\ advice.alerts[i].monthIndex = neg[i]
                  /\ snapshots[neg[i] + 1].cash < 0
            /\ Cardinality({i \in DOMAIN advice.alerts :
                              advice.alerts[i].message[1] = "Cash goes negative"}) = n
            /\ neg # <<>> => \E i \in DOMAIN advice.alerts : advice.alerts[i].type = "cash"

C7_Witness ==
    /\ pc = "advised"
    /\ Len(summary.negativeCashMonths) > 5
    /\ advice.alerts[5].monthIndex = summary.negativeCashMonths[5]

\* C8: a debt with annualRate > 0 and balance > 0 always gives a 'debt'
\* alert, however small balance and rate are; there is never more than one.
C8_DebtAlert ==
    pc = "advised" =>
        LET debtAlerts == {i \in DOMAIN advice.alerts : advice.alerts[i].type = "debt"}
        IN  /\ (\E i \in DOMAIN scenario.debts :
                   scenario.debts[i].annualRate > 0 /\ scenario.debts[i].balance > 0)
                  => debtAlerts # {}
            /\ Cardinality(debtAlerts) <= 1

\* C9: every insight's impact_aed is a multiple of 0.01, also when input
\* amounts such as initialCash are not.
C9_ImpactsRounded ==
    pc = "advised" =>
        \A i \in DOMAIN advice.insights : Is2dp(advice.insights[i].impact_aed)

----------------------------------------------------------------------------
(* Properties of the advisor orchestrator *)

\* the last runAdvisor call reached the provider and failed at its boundary
C11_LLMFailed ==
    /\ pc = "advised"
    /\ \/ llm.kind = "throws"
       \/ llm.kind = "text" /\ ~llm.json
       \/ llm.kind = "text" /\ llm.json /\ ~AdvisorResponseSchema(llm.value)

\* C11: when the provider call throws, when its text is not JSON and when
\* the parsed JSON fails AdvisorResponseSchema, runAdvisor returns a result,
\* and the response of that result is
\* runHeuristicAdvisor(scenario, forecast, prefs.emergencyFundMonths ?? 3):
\* the same response for the three kinds of failure.
C11_FallbackOnFailure ==
    C11_LLMFailed =>
        /\ DOMAIN run = {"response", "model", "inputHash", "fromCache"}
        /\ run.response =
               runHeuristicAdvisor(scenario, snapshots, summary,
                                   IF prefs.emergencyFundMonths = Null THEN 3
                                   ELSE prefs.emergencyFundMonths)
        /\ ~run.fromCache

\* a call with emergencyFundMonths 1 whose JSON answer failed validation, on a
\* forecast for which the heuristic response depends on emergencyFundMonths
C11_Witness ==
    /\ C11_LLMFailed
    /\ llm.kind = "text"
    /\ llm.json
    /\ prefs.emergencyFundMonths = 1
    /\ run.response # runHeuristicAdvisor(scenario, snapshots, summary, 3)

\* a candidate response carries a field the schema does not name
C12_HasUnknownField(c) ==
    \/ DOMAIN c # {"insights", "alerts", "actions"}
    \/ \E i \in DOMAIN c.insights :
          DOMAIN c.insights[i] # {"title", "why", "impact_aed", "confidence"}

\* a candidate response carries an enum value outside the allowed sets
C12_HasBadEnum(c) ==
    \/ \E i \in DOMAIN c.insights :
          c.insights[i].confidence \notin {"low", "med", "high"}
    \/ \E i \in DOMAIN c.alerts :
          c.alerts[i].type \notin {"cash", "debt", "rent", "fx", "portfolio"}
    \/ \E i \in DOMAIN c.actions :
          /\ "debtStrategy" \in DOMAIN c.actions[i].changes
          /\ c.actions[i].changes.debtStrategy \notin {"min", "aggressive", "instant"}

\* C12: a candidate response with a field the schema does not name, an enum
\* value outside the allowed sets, zero insights or more than 6 insights
\* fails validation against AdvisorResponseSchema, and a candidate that fails
\* validation is never returned by runAdvisor as the LLM response.
C12_InvalidCandidatesRejected ==
    (pc = "advised" /\ llm.kind = "text" /\ llm.json) =>
        /\ (\/ C12_HasUnknownField(llm.value)
            \/ C12_HasBadEnum(llm.value)
            \/ Len(llm.value.insights) = 0
            \/ Len(llm.value.insights) > 6) => ~AdvisorResponseSchema(llm.value)
        /\ ~AdvisorResponseSchema(llm.value) =>
               run.model = "heuristic-v1 (validation-fallback)"

----------------------------------------------------------------------------
(* Properties of the forecast engine: goals, debt-free month, minimum cash *)

\* the metric of a goal's type in a snapshot
C13_Metric(goal, snap) ==
    IF goal.type = "savings" THEN snap.cash
    ELSE IF goal.type = "net_worth" THEN snap.netWorth
    ELSE snap.totalInvestments

\* the months simulated so far in which the goal's metric is at or above
\* its target
C13_Qualifying(goal) ==
    { k \in 0..(Len(snapshots) - 1) :
        C13_Metric(goal, snapshots[k + 1]) >= goal.targetAmount }

\* C13: for each goal the achieved month is the smallest month whose
\* snapshot has the metric of the goal's type (savings: cash, net_worth:
\* netWorth, investment: totalInvestments) at or above targetAmount, and
\* null if there is no such month; this holds after every month of the
\* loop, so a later month never changes it, even when the metric is below
\* the target again; in the returned goalProgress, onTrack is true exactly
\* when achievedMonth is not null and is at most targetMonth.
C13_GoalAchievedMonth ==
    /\ \A gi \in DOMAIN scenario.goals :
          goalAchievedMonth[gi] =
              IF C13_Qualifying(scenario.goals[gi]) = {} THEN Null
              ELSE SetMin(C13_Qualifying(scenario.goals[gi]))
    /\ pc # "loop" =>
          /\ Len(goalProgress) = Len(scenario.goals)
          /\ \A gi \in DOMAIN scenario.goals :
                /\ goalProgress[gi].achievedMonth = goalAchievedMonth[gi]
                /\ goalProgress[gi].onTrack =
                       (/\ goalProgress[gi].achievedMonth # Null
                        /\ goalProgress[gi].achievedMonth
                               <= scenario.goals[gi].targetMonth)

\* a goal was achieved, the metric is below the target in the last month,
\* and another goal was achieved after its target month
C13_Witness ==
    /\ pc = "forecast"
    /\ \E gi \in DOMAIN scenario.goals :
          /\ goalProgress[gi].achievedMonth # Null
          /\ goalProgress[gi].achievedMonth < Len(snapshots) - 1
          /\ C13_Metric(scenario.goals[gi], snapshots[Len(snapshots)])
                 < scenario.goals[gi].targetAmount
          /\ goalProgress[gi].onTrack
    /\ \E gj \in DOMAIN scenario.goals :
          /\ goalProgress[gj].achievedMonth # Null
          /\ ~goalProgress[gj].onTrack

\* the months simulated so far that end with no debt left
C14_DebtFreeMonths ==
    { k \in 0..(Len(snapshots) - 1) : snapshots[k + 1].totalDebt = 0 }

\* C14: debtFreeMonth is the smallest month whose snapshot has totalDebt 0
\* when the scenario has at least one debt and there is such a month, and
\* null when the scenario has no debts or the total debt never reaches 0;
\* this holds after every month, so a later month does not overwrite it,
\* and summary.debtFreeMonth is that value.
C14_DebtFreeMonth ==
    /\ debtFreeMonth =
           IF Len(scenario.debts) > 0 /\ C14_DebtFreeMonths # {}
           THEN SetMin(C14_DebtFreeMonths) ELSE Null
    /\ pc # "loop" => summary.debtFreeMonth = debtFreeMonth

\* the debts were paid off after the first month and the loop went on for
\* at least two more months
C14_Witness ==
    /\ pc = "forecast"
    /\ Len(scenario.debts) > 0
    /\ summary.debtFreeMonth >= 1
    /\ summary.debtFreeMonth + 2 < Len(snapshots)
    /\ snapshots[1].totalDebt > 0

\* C15: summary.minCash is the minimum of snapshots[k].cash over the
\* simulated months and summary.minCashMonth is the first month whose
\* snapshot has that cash: snapshots[summary.minCashMonth].cash equals
\* summary.minCash.
C15_MinCash ==
    pc = "forecast" =>
        LET cashes == { snapshots[k].cash : k \in DOMAIN snapshots }
        IN  /\ summary.minCash \in cashes
            /\ \A c \in cashes : summary.minCash <= c
            /\ snapshots[summary.minCashMonth + 1].cash = summary.minCash
            /\ \A k \in DOMAIN snapshots :
                  snapshots[k].cash = summary.minCash
                      => summary.minCashMonth <= k - 1

----------------------------------------------------------------------------
(* Properties of the forecast engine: order of the line items, purity *)

\* the sequences with the items of s in any order
C16_Perms(s) ==
    { [i \in DOMAIN s |-> s[f[i]]] :
        f \in { g \in [DOMAIN s -> DOMAIN s] : \A i \in DOMAIN s : \E j \in DOMAIN s : g[j] = i } }

\* the scenarios obtained by reordering the line items of sc
C16_Reordered(sc) ==
    { [sc EXCEPT !.incomes = inc, !.expenses = ex, !.debts = de,
                 !.investments = iv, !.oneTimeEvents = ev] :
        inc \in C16_Perms(sc.incomes), ex \in C16_Perms(sc.expenses),
        de \in C16_Perms(sc.debts), iv \in C16_Perms(sc.investments),
        ev \in C16_Perms(sc.oneTimeEvents) }

----------------------------------------------------------------------------
(* Properties of the forecast engine: accounting identities, debt payments *)

\* the cash the month with index k opened with
C18_PrevCash(k) == IF k = 0 THEN scenario.initialCash ELSE snapshots[k].cash

C19_NetWorthIdentity ==
    /\ \A k \in DOMAIN snapshots :
          snapshots[k].netWorth =
              r2(snapshots[k].cash + snapshots[k].totalInvestments
                 - snapshots[k].totalDebt)
    /\ snapshots # <<>> =>
          /\ snapshots[Len(snapshots)].totalInvestments = SumSeq(invValues)
          /\ snapshots[Len(snapshots)].totalDebt =
                 SumSeq([di \in DOMAIN debtStates |-> debtStates[di].balance])
    /\ pc # "loop" =>
          /\ summary.endCash = snapshots[Len(snapshots)].cash
          /\ summary.endNetWorth = snapshots[Len(snapshots)].netWorth
          /\ summary.endInvestmentValue = snapshots[Len(snapshots)].totalInvestments

\* a returned forecast of several months that ends with debt left and
\* with investments
C19_Witness ==
    /\ pc = "forecast"
    /\ Len(snapshots) >= 2
    /\ snapshots[Len(snapshots)].totalDebt > 0
    /\ snapshots[Len(snapshots)].totalInvestments > 0
    /\ summary.endNetWorth # summary.endCash + summary.endInvestmentValue

\* what an aggressive debt in state d pays in a month whose cash before
\* debts and investments is preDebtCash, and the interest it is charged
C20_Interest(d) == r2q(d.balance * d.annualRate, 1200)

C20_Payment(d, preDebtCash) ==
    IF d.paidOff \/ d.balance <= 0 THEN 0
    ELSE r2q(Min(10 * (d.balance + C20_Interest(d)),
                 10 * d.minPayment + 3 * Max(0, preDebtCash)), 10)

\* C20: in every month every aggressive debt pays
\* min(balance + interest, minPayment + 0.3 * max(0, preDebtCash)) (at 2
\* decimals), with the month's one preDebtCash for every debt whatever the
\* debts before it in the list paid: its balance goes down by that payment,
\* when all debts are aggressive the month's totalDebtPayment is the sum of
\* these payments, and aggressive debts in equal states are in equal states
\* after the month.
C20_AggressivePayments ==
    [][(pc = "loop" /\ m' = m + 1) =>
          LET snap == snapshots'[Len(snapshots')]
              preDebtCash ==
                  r2(cash + snap.totalIncome - snap.totalExpenses
                     + oneTimeNetOf(scenario.oneTimeEvents, m))
              aggressive ==
                  { di \in DOMAIN debtStates :
                      debtStates[di].strategy = "aggressive" }
          IN  /\ \A di \in aggressive :
                    debtStates'[di].balance =
                        IF debtStates[di].paidOff \/ debtStates[di].balance <= 0
                        THEN 0
                        ELSE r2(Max(0, debtStates[di].balance
                                       + C20_Interest(debtStates[di])
                                       - C20_Payment(debtStates[di], preDebtCash)))
              /\ aggressive = DOMAIN debtStates =>
                    snap.totalDebtPayment =
                        SumSeq([di \in DOMAIN debtStates |->
                                  C20_Payment(debtStates[di], preDebtCash)])
              /\ \A di \in aggressive : \A dj \in aggressive :
                    debtStates[di] = debtStates[dj]
                        => debtStates'[di] = debtStates'[dj]]_vars

\* two aggressive debts in equal states each paid more than their minimum
\* out of a positive preDebtCash, and together more than that preDebtCash
C20_Witness ==
    /\ Len(snapshots) = 1
    /\ Len(scenario.debts) = 2
    /\ scenario.debts[1].strategy = "aggressive"
    /\ scenario.debts[2].strategy = "aggressive"
    /\ scenario.debts[1].balance = scenario.debts[2].balance
    /\ debtStates[1] = debtStates[2]
    /\ snapshots[1].totalDebtPayment > 2 * scenario.debts[1].minPayment
    /\ snapshots[1].cash + snapshots[1].totalDebtPayment
           + snapshots[1].totalInvestmentContribution > 0
    /\ snapshots[1].totalDebtPayment >
           snapshots[1].cash + snapshots[1].totalDebtPayment
               + snapshots[1].totalInvestmentContribution

----------------------------------------------------------------------------
(* Properties of the forecast engine: the debt ledger and the schedules *)

\* what a month of the loop does to the debts: no balance is negative, a
\* debt at balance 0 is marked paidOff, and a paid-off debt keeps balance 0;
\* when every debt was paid off before the month, the month pays nothing and
\* no interest is added
C21_MonthOnDebts ==
    /\ \A di \in DOMAIN debtStates :
          /\ debtStates'[di].balance >= 0
          /\ debtStates'[di].balance = 0 => debtStates'[di].paidOff
          /\ debtStates[di].paidOff =>
                /\ debtStates'[di].paidOff
                /\ debtStates'[di].balance = 0
    /\ (\A di \in DOMAIN debtStates : debtStates[di].paidOff) =>
          /\ snapshots'[Len(snapshots')].totalDebtPayment = 0
          /\ snapshots'[Len(snapshots')].totalDebt = 0
          /\ totalInterestPaid' = totalInterestPaid

\* C21 as stated: no debt balance is negative after a month's step, a debt
\* whose balance reached 0 is marked paidOff and then keeps balance 0 with
\* no interest and no payment, and every snapshot from summary.debtFreeMonth
\* onward, that month included, has totalDebt 0 and totalDebtPayment 0.
C21_AbsorbingFromDebtFreeMonth ==
    [][(pc = "loop" /\ m' = m + 1) =>
          /\ C21_MonthOnDebts
          /\ debtFreeMonth' # Null =>
                \A k \in debtFreeMonth'..(Len(snapshots') - 1) :
                    /\ snapshots'[k + 1].totalDebt = 0
                    /\ snapshots'[k + 1].totalDebtPayment = 0]_vars

\* C21: no debt balance is negative after a month's step, a debt whose
\* balance reached 0 is marked paidOff and then keeps balance 0 with no
\* interest and no payment; every snapshot from debtFreeMonth onward has
\* totalDebt 0, and every snapshot after debtFreeMonth has
\* totalDebtPayment 0 (the month debtFreeMonth itself carries the last
\* payment).
C21_PaidOffAbsorbing ==
    [][(pc = "loop" /\ m' = m + 1) =>
          /\ C21_MonthOnDebts
          /\ debtFreeMonth' # Null =>
                \A k \in debtFreeMonth'..(Len(snapshots') - 1) :
                    /\ snapshots'[k + 1].totalDebt = 0
                    /\ k > debtFreeMonth' =>
                          snapshots'[k + 1].totalDebtPayment = 0]_vars

\* two debts, the second paid off before the first, and at least two
\* months simulated after the month that made the scenario debt free
C21_Witness ==
    /\ Len(debtStates) = 2
    /\ debtFreeMonth >= 2
    /\ Len(snapshots) >= debtFreeMonth + 3
    /\ snapshots[debtFreeMonth + 1].totalDebtPayment > 0
    /\ snapshots[debtFreeMonth].totalDebt > 0
    /\ \A di \in DOMAIN debtStates : debtStates[di].paidOff

\* the interest the debts in their present states are charged in a month
C22_MonthInterest ==
    SumSeq([di \in DOMAIN debtStates |->
              IF debtStates[di].paidOff \/ debtStates[di].balance <= 0 THEN 0
              ELSE r2q(debtStates[di].balance * debtStates[di].annualRate, 1200)])

\* the sum of the present debt balances
C22_Balances == SumSeq([di \in DOMAIN debtStates |-> debtStates[di].balance])

\* the ledger of the debts over a step of the program: a month pays the
\* old balances plus the month's interest minus the new balances, no debt
\* is paid more than its balance plus interest (no balance goes below 0),
\* the month's interest is added to totalInterestPaid, the payments of all
\* months so far are the initial balances plus totalInterestPaid minus the
\* total debt left, and the summary carries totalInterestPaid
C22_Ledger ==
    /\ (pc = "loop" /\ m' = m + 1) =>
          /\ totalInterestPaid' = totalInterestPaid + C22_MonthInterest
          /\ snapshots'[Len(snapshots')].totalDebtPayment =
                 C22_Balances + C22_MonthInterest - C22_Balances'
          /\ \A di \in DOMAIN debtStates : debtStates'[di].balance >= 0
          /\ SumSeq([k \in DOMAIN snapshots' |-> snapshots'[k].totalDebtPayment]) =
                 SumSeq([di \in DOMAIN scenario.debts |-> scenario.debts[di].balance])
                     + totalInterestPaid'
                     - snapshots'[Len(snapshots')].totalDebt
    /\ (pc = "loop" /\ pc' = "forecast") =>
          summary'.totalInterestPaid = totalInterestPaid

\* C22 as stated: the ledger holds for every scenario whose debts all have
\* balance >= 0, annualRate >= 0 and minPayment >= 0.
C22_LedgerAnyBalance ==
    [][(\A di \in DOMAIN scenario.debts :
            /\ scenario.debts[di].balance >= 0
            /\ scenario.debts[di].annualRate >= 0
            /\ scenario.debts[di].minPayment >= 0) => C22_Ledger]_vars

\* C22: the ledger holds for every scenario whose debts all have a balance
\* >= 0 that is a multiple of 0.01, annualRate >= 0 and minPayment >= 0.
C22_DebtLedger ==
    [][(\A di \in DOMAIN scenario.debts :
            /\ scenario.debts[di].balance >= 0
            /\ Is2dp(scenario.debts[di].balance)
            /\ scenario.debts[di].annualRate >= 0
            /\ scenario.debts[di].minPayment >= 0) => C22_Ledger]_vars

\* two debts with interest, three months paid, debt left
C22_Witness ==
    /\ pc = "forecast"
    /\ Len(scenario.debts) = 2
    /\ \A di \in DOMAIN scenario.debts : Is2dp(scenario.debts[di].balance)
    /\ Len(snapshots) >= 3
    /\ summary.totalInterestPaid > 0
    /\ snapshots[3].totalDebtPayment > 0
    /\ snapshots[Len(snapshots)].totalDebt > 0

\* an income or expense item is scheduled for month k: startMonth <= k and
\* no endMonth or k <= endMonth
C23_Scheduled(item, k) ==
    /\ item.startMonth <= k
    /\ item.endMonth = Null \/ k <= item.endMonth

\* the amount of an item in month k, grown by its yearly rate
C23_Amount(item, k) ==
    r2q(item.amount * Pow(100 + item.growthRate, k \div 12), Pow(100, k \div 12))

\* the months of the horizon in which an expense is charged
C23_ChargedMonths(e) ==
    { k \in 0..(scenario.months - 1) :
        C23_Scheduled(e, k) /\ (e.isOneTime => k = e.startMonth) }

\* C23: in every simulated month k the income total is made of exactly the
\* incomes with startMonth <= k and (no endMonth or k <= endMonth), the
\* expense total of exactly the expenses scheduled in the same way, an
\* isOneTime expense counting only in k = startMonth (so it is charged at
\* most once over the horizon), and the month's cash moves by exactly the
\* one-time events with month = k.
C23_Schedules ==
    \A k \in 0..(Len(snapshots) - 1) :
        LET snap == snapshots[k + 1]
            gross ==
                r2(SumSeq([i \in DOMAIN scenario.incomes |->
                             IF C23_Scheduled(scenario.incomes[i], k)
                             THEN C23_Amount(scenario.incomes[i], k) ELSE 0]))
            infl == inflationMultiplier(scenario.inflationRate, k)
            events ==
                r2(SumSeq([i \in DOMAIN scenario.oneTimeEvents |->
                             IF scenario.oneTimeEvents[i].month = k
                             THEN scenario.oneTimeEvents[i].amount ELSE 0]))
        IN  /\ snap.totalIncome = r2(gross - r2q(gross * scenario.taxRate, 100))
            /\ snap.totalExpenses =
                   r2q(SumSeq([i \in DOMAIN scenario.expenses |->
                                 IF k \in C23_ChargedMonths(scenario.expenses[i])
                                 THEN C23_Amount(scenario.expenses[i], k) * infl[1]
                                 ELSE 0]),
                       infl[2])
            /\ snap.cash + snap.totalDebtPayment + snap.totalInvestmentContribution =
                   r2(C18_PrevCash(k) + snap.totalIncome - snap.totalExpenses + events)
            /\ \A i \in DOMAIN scenario.expenses :
                  scenario.expenses[i].isOneTime =>
                      Cardinality(C23_ChargedMonths(scenario.expenses[i])) <= 1

\* a forecast that ran past the end month of an income and of an expense,
\* past the month of a one-time expense and past the months of two events
C23_Witness ==
    /\ pc = "forecast"
    /\ Len(snapshots) >= 5
    /\ \E i \in DOMAIN scenario.incomes :
          /\ scenario.incomes[i].startMonth = 1
          /\ scenario.incomes[i].endMonth = 2
    /\ \E i \in DOMAIN scenario.expenses :
          /\ scenario.expenses[i].isOneTime
          /\ scenario.expenses[i].startMonth = 1
          /\ scenario.expenses[i].endMonth = Null
    /\ \E i \in DOMAIN scenario.expenses : scenario.expenses[i].endMonth = 3
    /\ Len(scenario.oneTimeEvents) = 2
    /\ snapshots[2].totalExpenses > snapshots[3].totalExpenses
    /\ snapshots[4].totalExpenses > snapshots[5].totalExpenses
    /\ snapshots[3].totalIncome > snapshots[4].totalIncome

----------------------------------------------------------------------------
(* Properties of the heuristic advisor: alerts, insights, actions *)

\* the 'rent' alerts of the response
C24_RentAlerts ==
    { i \in DOMAIN advice.alerts : advice.alerts[i].type = "rent" }

\* the months i >= 1 whose total expenses rose over the previous month's by
\* more than 20% of the previous month's
C24_Rises ==
    { i \in 1..(Len(snapshots) - 1) :
        5 * (snapshots[i + 1].totalExpenses - snapshots[i].totalExpenses)
            > snapshots[i].totalExpenses }

\* C24: the response has a 'rent' alert if and only if there is a month
\* i >= 1 whose total expenses exceed those of month i - 1 by more than 20%
\* of the latter; it has at most one, and its monthIndex is the first such
\* month.
C24_ExpenseSpikeAlert ==
    pc = "advised" =>
        /\ Cardinality(C24_RentAlerts) <= 1
        /\ C24_RentAlerts # {} <=> C24_Rises # {}
        /\ \A i \in C24_RentAlerts :
              advice.alerts[i].monthIndex = SetMin(C24_Rises)

\* C25: the response has at least 3 insights, the first of them the
\* projected-net-worth insight with impact summary.endNetWorth, and the
\* 'cash flow stable' filler is among them when fewer than 3 rule insights
\* apply.
C25_AtLeastThreeInsights ==
    pc = "advised" =>
        /\ Len(advice.insights) >= 3
        /\ advice.insights[1].title = << "Projected net worth" >>
        /\ advice.insights[1].impact_aed = summary.endNetWorth
        /\ (1 + (IF summary.debtFreeMonth # Null THEN 1 ELSE 0)
              + (IF Len(summary.negativeCashMonths) > 0 THEN 1 ELSE 0)
              + (IF Len(scenario.investments) > 0 THEN 1 ELSE 0) < 3)
               => \E i \in DOMAIN advice.insights :
                     advice.insights[i].title = << "Cash flow appears stable" >>

\* the 'aggressive-debt' actions of the response
C26_Offered(r) == { i \in DOMAIN r.actions : r.actions[i].id = "aggressive-debt" }

C28_HeuristicResponseIsOwn ==
    (pc = "advised" /\ heuristicPath(env)) =>
        run.response = runHeuristicAdvisor(scenario, snapshots, summary,
                                           Coalesce(prefs.emergencyFundMonths, 3))

\* C29: a call served from memCache returns the model label of the call
\* before it, when that call had the same input hash (the call that stored
\* the response, or one that was itself served from the cache).
C29_CachedModelLabel ==
    [][ ( /\ calls > 1
          /\ pc = "forecast"
          /\ pc' = "advised"
          /\ run'.fromCache
          /\ run'.inputHash = run.inputHash )
        => run'.model = run.model ]_vars

\* ---------------------------------------------------------------------------
\* Properties of the advisor route
\* ---------------------------------------------------------------------------

\* C27: a checkRateLimit call of an ip that finds no entry or an expired one
\* (now > resetAt) opens a window of 60000 ms and is accepted; in a running
\* window the call is accepted while fewer than 10 requests of the window
\* were, and is rejected with remaining 0 otherwise, with the resetAt of the
\* window in both cases; at most 10 requests of a window are accepted, the
\* reported remaining is never below 0, and the entries of the other ips
\* stay as they are.
C27_RateLimit ==
    [][ rateLimitMap' # rateLimitMap =>
          LET ip == rl'.ip
              fresh == IF ip \notin DOMAIN rateLimitMap THEN TRUE
                       ELSE now > rateLimitMap[ip].resetAt
          IN  /\ fresh => /\ rl'.ok
                          /\ rl'.resetAt = now + 60000
                          /\ rateLimitMap'[ip].resetAt = now + 60000
                          /\ accepted'[ip] = 1
              /\ ~fresh => /\ rl'.resetAt = rateLimitMap[ip].resetAt
                           /\ rateLimitMap'[ip].resetAt = rateLimitMap[ip].resetAt
                           /\ rl'.ok <=> accepted[ip] < 10
                           /\ rl'.ok => accepted'[ip] = accepted[ip] + 1
                           /\ ~rl'.ok => /\ rl'.remaining = 0
                                         /\ accepted'[ip] = accepted[ip]
              /\ accepted'[ip] <= 10
              /\ rl'.remaining >= 0
              /\ \A other \in IPs \ {ip} :
                    /\ other \in DOMAIN rateLimitMap' <=> other \in DOMAIN rateLimitMap
                    /\ other \in DOMAIN rateLimitMap =>
                           rateLimitMap'[other] = rateLimitMap[other]
                    /\ accepted'[other] = accepted[other] ]_vars

\* an ip is rejected a second time in a window that was opened after its
\* first window expired, while another ip is inside a window of its own
C27_Witness ==
    /\ rl.ip \in DOMAIN rateLimitMap
    /\ ~rl.ok
    /\ rl.remaining = 0
    /\ rateLimitMap[rl.ip].count = 12
    /\ rateLimitMap[rl.ip].resetAt > 60000
    /\ \E other \in (DOMAIN rateLimitMap) \ {rl.ip} :
          /\ rateLimitMap[other].resetAt # rateLimitMap[rl.ip].resetAt
          /\ rateLimitMap[other].count < 10

\* C30: db.advisorRun never holds two rows with the same scenarioId and the
\* same inputHash, whatever the interleaving of the POST handlers.
C30_NoDuplicateRuns ==
    \A i, j \in DOMAIN db.advisorRun :
        (/\ db.advisorRun[i].scenarioId = db.advisorRun[j].scenarioId
         /\ db.advisorRun[i].inputHash = db.advisorRun[j].inputHash) => i = j

====
